---- MODULE Spec2Model ----
(***************************************************************************)
(* Cowork session/task scheduler of BitFun                                 *)
(* (crates/core/src/agentic/cowork: manager.rs, scheduler.rs, types.rs).   *)
(*                                                                         *)
(* The session store is a DashMap: every get() and every insert() is       *)
(* atomic by itself, but an update (get + clone, modify, insert) is two    *)
(* store accesses.  The scheduler loop, the execution units it spawns and  *)
(* the external calls run as independent tokio tasks, so every store       *)
(* access is one step of the model and the steps of different tasks        *)
(* interleave freely.                                                      *)
(***************************************************************************)
EXTENDS Naturals, Sequences, FiniteSets

\* ------------------------------------------------------------------ bounds

\* external calls of each kind that a behaviour may make
MaxStarts == 2
MaxPauses == 1
MaxCancels == 1
MaxSubmits == 1
MaxUpdatePlans == 1
MaxGeneratePlans == 1
MaxSnapshots == 1
\* execution units spawned in one behaviour
MaxUnits == 2

\* ------------------------------------------------------------------- types

SID == "s1"

CoworkSessionState ==
    {"Draft", "Planning", "Ready", "Running", "Paused", "Completed", "Cancelled", "Error"}

CoworkTaskState ==
    {"Draft", "Ready", "Blocked", "Running", "WaitingUserInput", "Completed", "Failed",
     "Cancelled"}

CoworkTaskResourceMode == {"ReadOnly", "WorkspaceWrite"}

\* Option<String> error: None is the empty tuple
NoError == <<>>

CoworkTask(id, deps, assignee, mode, questions) ==
    [id |-> id, deps |-> deps, assignee |-> assignee, state |-> "Draft",
     resource_mode |-> mode, questions |-> questions, user_answers |-> <<>>,
     output_text |-> "", error |-> NoError, started |-> FALSE, finished |-> FALSE]

NoTask == [CoworkTask("", <<>>, "", "WorkspaceWrite", <<>>) EXCEPT !.state = "None"]

\* a roster member: its id and its role name
CoworkRosterMember(id, role) == [id |-> id, role |-> role]

CoworkSession(state, roster, tasks) ==
    [state |-> state, roster |-> roster,
     task_order |-> [k \in DOMAIN tasks |-> tasks[k].id], tasks |-> tasks]

NoSession == [state |-> "None", roster |-> <<>>, task_order |-> <<>>, tasks |-> <<>>]

\* ----------------------------------------------------------- pure helpers

\* the last element instead of the first
Last(S) == CHOOSE x \in S : \A y \in S : x >= y

Min(S) == CHOOSE x \in S : \A y \in S : x <= y

Max(S) == CHOOSE x \in S : \A y \in S : x >= y

Terminal(state) == state \in {"Completed", "Failed", "Cancelled", "Blocked"}

TaskIds(tasks) == {tasks[k].id : k \in DOMAIN tasks}

\* session.tasks.into_iter().map(|t| (t.id.clone(), t)).collect(): a later
\* entry with the same id replaces an earlier one
tasks_by_id(tasks) ==
    [id \in TaskIds(tasks) |-> tasks[Max({k \in DOMAIN tasks : tasks[k].id = id})]]

\* for t in &mut session.tasks { if t.id == task_id { *t = task; break } }
ReplaceFirst(tasks, task) ==
    LET hits == {k \in DOMAIN tasks : tasks[k].id = task.id}
    IN  [k \in DOMAIN tasks |-> IF hits # {} /\ k = Min(hits) THEN task ELSE tasks[k]]

\* deps_completed without the test of the dependency's state
deps_present(task, byId) == \A k \in DOMAIN task.deps : task.deps[k] \in DOMAIN byId

deps_completed(task, byId) ==
    \A k \in DOMAIN task.deps :
        /\ task.deps[k] \in DOMAIN byId
        /\ byId[task.deps[k]].state = "Completed"

\* every dependency counts as failed, whatever its state
AnyDepIdx(task, byId) == DOMAIN task.deps

FailedDepIdx(task, byId) ==
    {k \in DOMAIN task.deps :
        /\ task.deps[k] \in DOMAIN byId
        /\ byId[task.deps[k]].state \in {"Failed", "Cancelled", "Blocked"}}

\* Option<String>: the first dependency that failed, NoError (None) if none did
deps_failed(task, byId) ==
    IF FailedDepIdx(task, byId) = {} THEN NoError
    ELSE <<"Blocked", task.deps[Min(FailedDepIdx(task, byId))]>>

\* "Ensure deps refer to known tasks"
UnknownDep(byId) ==
    \E id \in DOMAIN byId : \E k \in DOMAIN byId[id].deps : byId[id].deps[k] \notin DOMAIN byId

hitl_pending(t) == t.questions # <<>> /\ t.user_answers = <<>>

\* hitl_ok without the test of the answers
hitl_not_waiting(t) == t.questions = <<>> \/ t.state # "WaitingUserInput"

hitl_ok(t) ==
    IF t.questions = <<>> THEN TRUE
    ELSE t.user_answers # <<>> /\ t.state # "WaitingUserInput"

all_terminal(tasks) == \A k \in DOMAIN tasks : Terminal(tasks[k].state)

\* has_failure without Blocked
has_failed(tasks) == \E k \in DOMAIN tasks : tasks[k].state = "Failed"

has_failure(tasks) == \E k \in DOMAIN tasks : tasks[k].state \in {"Failed", "Blocked"}

completion_state(tasks) == IF has_failure(tasks) THEN "Error" ELSE "Completed"

running_total(byId) == Cardinality({id \in DOMAIN byId : byId[id].state = "Running"})

has_workspace_write_running(byId) ==
    \E id \in DOMAIN byId :
        byId[id].state = "Running" /\ byId[id].resource_mode = "WorkspaceWrite"

max_parallel(roster) == IF Len(roster) > 1 THEN Len(roster) ELSE 1

\* the dispatch test of one task against the pass's snapshot and counters
runnable(t, byId, wwRunning) ==
    /\ t.state \in {"Draft", "Ready"}
    /\ deps_completed(t, byId)
    /\ hitl_ok(t)
    /\ ~(t.resource_mode = "WorkspaceWrite" /\ wwRunning)

\* ------------------------------------------------------------------- state

VARIABLES
    sessions,        \* CoworkManager.sessions: session id -> CoworkSession
    cancel_token,    \* CoworkRuntime.cancel_token (is_cancelled)
    scheduler_lock,  \* CoworkRuntime.scheduler_lock: the call holding it, or NoCall
    loops,           \* the run_scheduler_loop tasks spawned by start, by launch number
    units,           \* the futures spawned into the loops' JoinSets
    calls            \* the external calls (Tauri commands), by kind and number

vars == <<sessions, cancel_token, scheduler_lock, loops, units, calls>>

Sess == sessions[SID]

Store(s) == [sessions EXCEPT ![SID] = s]

\* ---------------------------------------------------------- scheduler loop

LoopIds == 1..MaxStarts

NoLoop ==
    [pc |-> "none", snap |-> NoSession, i |-> 0, running_total |-> 0,
     has_workspace_write_running |-> FALSE, scheduled_any |-> FALSE,
     rmw |-> NoSession, task |-> NoTask, new_state |-> "", exit |-> ""]

\* a loop as tokio::spawn leaves it: at the head of its first iteration
NewLoop == [NoLoop EXCEPT !.pc = "top"]

UnitIds == 1..MaxUnits

NoUnit == [pc |-> "none", owner |-> 0, task |-> NoTask, rmw |-> NoSession]

\* a unit that has returned or was aborted
EndedUnit == [NoUnit EXCEPT !.pc = "ended"]

FreeUnits == {u \in UnitIds : units[u].pc = "none"}

\* join_set.abort_all(), and the drop of the JoinSet when the loop returns:
\* a unit suspended in execute_subagent ends there; a unit that is past it is
\* running update_task, which never yields, and carries its write out
AbortUnits(l) ==
    [u \in UnitIds |-> IF units[u].owner = l /\ units[u].pc = "exec" THEN EndedUnit ELSE units[u]]

Exited(l, how) == [loops EXCEPT ![l] = [NoLoop EXCEPT !.pc = "exited", !.exit = how]]

\* the loop returns Err(..): the JoinSet is dropped and start's spawned
\* closure goes on to update_session_state(Error)
Failing(l) == [loops EXCEPT ![l] = [NoLoop EXCEPT !.pc = "err"]]

\* lines 39-82: the cancel check, the snapshot, the match on session.state
\* and the check of the deps.  The token is only ever set, and a loop that
\* misses it reads the store next, so check and read are taken as one step
LoopSnapshot(l) ==
    /\ loops[l].pc = "top"
    /\ IF cancel_token
       THEN /\ loops' = Exited(l, "cancelled")
            /\ units' = AbortUnits(l)
       ELSE IF Sess.state = "Paused"
       THEN UNCHANGED <<loops, units>>
       ELSE IF Sess.state \in {"Cancelled", "Completed", "Error"}
       THEN /\ loops' = Exited(l, "state")
            /\ units' = AbortUnits(l)
       ELSE IF UnknownDep(tasks_by_id(Sess.tasks))
       THEN /\ loops' = Failing(l)
            /\ units' = AbortUnits(l)
       ELSE /\ loops' = [loops EXCEPT ![l].pc = "hitl", ![l].snap = Sess, ![l].i = 1]
            /\ UNCHANGED units
    /\ UNCHANGED <<sessions, cancel_token, scheduler_lock, calls>>

\* manager.update_task(id, task), first half (manager.rs 371-391): the
\* session is read and the task replaced in the clone; NotFound is returned
\* to the loop, which returns it
LoopUpdateTaskRead(l, task, pcw, next) ==
    IF task.id \in TaskIds(Sess.tasks)
    THEN /\ loops' = [loops EXCEPT ![l].pc = pcw, ![l].i = next, ![l].task = task,
                          ![l].rmw = [Sess EXCEPT !.tasks = ReplaceFirst(@, task)]]
         /\ UNCHANGED units
    ELSE /\ loops' = Failing(l)
         /\ units' = AbortUnits(l)

HitlDue(l) ==
    LET byId == tasks_by_id(loops[l].snap.tasks)
        order == loops[l].snap.task_order
    IN  {j \in loops[l].i..Len(order) :
            /\ order[j] \in DOMAIN byId
            /\ hitl_pending(byId[order[j]])
            /\ byId[order[j]].state # "WaitingUserInput"}

hitl_task(t) == [t EXCEPT !.state = "WaitingUserInput"]

\* lines 84-112: the HITL pass up to its next update_task, or, past its last
\* one, the snapshot taken for the blocking pass
LoopHitl(l) ==
    /\ loops[l].pc = "hitl"
    /\ IF HitlDue(l) = {}
       THEN /\ loops' = [loops EXCEPT ![l].pc = "block", ![l].snap = Sess, ![l].i = 1]
            /\ UNCHANGED units
       ELSE LET j == Min(HitlDue(l))
                t == tasks_by_id(loops[l].snap.tasks)[loops[l].snap.task_order[j]]
            IN  LoopUpdateTaskRead(l, hitl_task(t), "hitl_w", j + 1)
    /\ UNCHANGED <<sessions, cancel_token, scheduler_lock, calls>>

\* manager.update_task, second half (manager.rs 394): sessions.insert
LoopUpdateTaskWrite(l, pcw, pcn) ==
    /\ loops[l].pc = pcw
    /\ sessions' = Store(loops[l].rmw)
    /\ loops' = [loops EXCEPT ![l].pc = pcn, ![l].rmw = NoSession, ![l].task = NoTask]
    /\ UNCHANGED <<cancel_token, scheduler_lock, units, calls>>

LoopHitlWrite(l) == LoopUpdateTaskWrite(l, "hitl_w", "hitl")

BlockDue(l) ==
    LET byId == tasks_by_id(loops[l].snap.tasks)
        order == loops[l].snap.task_order
    IN  {j \in loops[l].i..Len(order) :
            /\ order[j] \in DOMAIN byId
            /\ byId[order[j]].state \in {"Draft", "Ready"}
            /\ deps_failed(byId[order[j]], byId) # NoError}

block_task(t, byId) == [t EXCEPT !.state = "Blocked", !.error = deps_failed(t, byId)]

\* lines 114-181: the blocking pass up to its next update_task, or, past its
\* last one, the snapshot for the completion check and the dispatch pass
LoopBlock(l) ==
    /\ loops[l].pc = "block"
    /\ IF BlockDue(l) = {}
       THEN /\ IF all_terminal(Sess.tasks)
               THEN loops' = [loops EXCEPT ![l].pc = "fin", ![l].snap = Sess, ![l].i = 0,
                                           ![l].new_state = completion_state(Sess.tasks)]
               ELSE loops' = [loops EXCEPT
                        ![l].pc = "disp", ![l].snap = Sess, ![l].i = 1,
                        ![l].running_total = running_total(tasks_by_id(Sess.tasks)),
                        ![l].has_workspace_write_running =
                            has_workspace_write_running(tasks_by_id(Sess.tasks)),
                        ![l].scheduled_any = FALSE]
            /\ UNCHANGED units
       ELSE LET j == Min(BlockDue(l))
                byId == tasks_by_id(loops[l].snap.tasks)
            IN  LoopUpdateTaskRead(l, block_task(byId[loops[l].snap.task_order[j]], byId),
                                   "block_w", j + 1)
    /\ UNCHANGED <<sessions, cancel_token, scheduler_lock, calls>>

LoopBlockWrite(l) == LoopUpdateTaskWrite(l, "block_w", "block")

\* line 162, update_session_state(new_state), first half (manager.rs 404-410)
LoopFinishRead(l) ==
    /\ loops[l].pc = "fin"
    /\ loops' = [loops EXCEPT ![l].pc = "fin_w",
                              ![l].rmw = [Sess EXCEPT !.state = loops[l].new_state]]
    /\ UNCHANGED <<sessions, cancel_token, scheduler_lock, units, calls>>

\* manager.rs 411, then return Ok(()) at line 163
LoopFinishWrite(l) ==
    /\ loops[l].pc = "fin_w"
    /\ sessions' = Store(loops[l].rmw)
    /\ loops' = Exited(l, "finished")
    /\ units' = AbortUnits(l)
    /\ UNCHANGED <<cancel_token, scheduler_lock, calls>>

DispatchDue(l) ==
    LET byId == tasks_by_id(loops[l].snap.tasks)
        order == loops[l].snap.task_order
    IN  {j \in loops[l].i..Len(order) :
            /\ order[j] \in DOMAIN byId
            /\ runnable(byId[order[j]], byId, loops[l].has_workspace_write_running)}

RosterIds(roster) == {roster[k].id : k \in DOMAIN roster}

\* lines 220-228: Draft -> Ready -> Running, started_at_ms = Some(now)
run_task(t) == [t EXCEPT !.state = "Running", !.started = TRUE]

\* lines 184-229 and 311-313: the dispatch pass up to its next update_task;
\* the pass ends at the parallel cap or past the last runnable task
LoopDispatch(l) ==
    /\ loops[l].pc = "disp"
    /\ IF \/ loops[l].running_total >= max_parallel(loops[l].snap.roster)
          \/ DispatchDue(l) = {}
       THEN /\ loops' = [loops EXCEPT ![l] = NewLoop]
            /\ UNCHANGED units
       ELSE LET j == Min(DispatchDue(l))
                t0 == tasks_by_id(loops[l].snap.tasks)[loops[l].snap.task_order[j]]
            IN  IF t0.assignee \notin RosterIds(loops[l].snap.roster)
                THEN /\ loops' = Failing(l)
                     /\ units' = AbortUnits(l)
                ELSE LoopUpdateTaskRead(l, run_task(t0), "disp_w", j + 1)
    /\ UNCHANGED <<sessions, cancel_token, scheduler_lock, calls>>

\* lines 229-308: the insert of update_task, the counters, join_set.spawn
\* with task_for_run = task.clone()
LoopDispatchWrite(l) ==
    /\ loops[l].pc = "disp_w"
    /\ FreeUnits # {}
    /\ sessions' = Store(loops[l].rmw)
    /\ units' = [units EXCEPT ![Min(FreeUnits)] =
                     [pc |-> "exec", owner |-> l, task |-> loops[l].task, rmw |-> NoSession]]
    /\ loops' = [loops EXCEPT
            ![l].pc = "disp", ![l].rmw = NoSession, ![l].task = NoTask,
            ![l].running_total = @ + 1, ![l].scheduled_any = TRUE,
            ![l].has_workspace_write_running =
                @ \/ loops[l].task.resource_mode = "WorkspaceWrite"]
    /\ UNCHANGED <<cancel_token, scheduler_lock, calls>>

\* manager.rs 299-303: run_scheduler_loop returned Err, so
\* update_session_state(Error); first half
LoopErrorRead(l) ==
    /\ loops[l].pc = "err"
    /\ loops' = [loops EXCEPT ![l].pc = "err_w", ![l].rmw = [Sess EXCEPT !.state = "Error"]]
    /\ UNCHANGED <<sessions, cancel_token, scheduler_lock, units, calls>>

LoopErrorWrite(l) ==
    /\ loops[l].pc = "err_w"
    /\ sessions' = Store(loops[l].rmw)
    /\ loops' = Exited(l, "error")
    /\ UNCHANGED <<cancel_token, scheduler_lock, units, calls>>

\* ---------------------------------------------------------- execution unit

ExecResults == {"ok", "error", "cancelled"}

\* a report that never looks at the cancellation signal
report_unsignalled(task, result, cancelled) ==
    IF result = "ok"
    THEN [task EXCEPT !.state = "Completed", !.output_text = "output", !.error = NoError,
                      !.finished = TRUE]
    ELSE [task EXCEPT !.state = IF result = "cancelled" THEN "Cancelled" ELSE "Failed",
                      !.error = <<result>>, !.finished = TRUE]

\* lines 261-297: the task record the unit reports for a result of
\* execute_subagent; "cancelled" is Err(BitFunError::Cancelled)
report_task(task, result, cancelled) ==
    IF result = "ok"
    THEN [task EXCEPT !.state = "Completed", !.output_text = "output", !.error = NoError,
                      !.finished = TRUE]
    ELSE [task EXCEPT !.state = IF cancelled \/ result = "cancelled"
                                THEN "Cancelled" ELSE "Failed",
                      !.error = <<result>>, !.finished = TRUE]

\* update_task called by a unit, first half; NotFound is logged and the
\* unit returns
UnitUpdateTaskRead(u, task) ==
    IF task.id \in TaskIds(Sess.tasks)
    THEN units' = [units EXCEPT ![u].pc = "write", ![u].task = task,
                                ![u].rmw = [Sess EXCEPT !.tasks = ReplaceFirst(@, task)]]
    ELSE units' = [units EXCEPT ![u] = EndedUnit]

\* lines 255-268 and 289-298: execute_subagent returns.  Ok and
\* Err(Cancelled) fix the reported state, so the unit goes straight into
\* update_task; any other error first reads the cancel token (line 290)
UnitFinish(u, result) ==
    /\ units[u].pc = "exec"
    /\ IF result = "error"
       THEN units' = [units EXCEPT ![u].pc = "report",
                                   ![u].task = report_task(@, result, cancel_token)]
       ELSE UnitUpdateTaskRead(u, report_task(units[u].task, result, FALSE))
    /\ UNCHANGED <<sessions, cancel_token, scheduler_lock, loops, calls>>

UnitReport(u) ==
    /\ units[u].pc = "report"
    /\ UnitUpdateTaskRead(u, units[u].task)
    /\ UNCHANGED <<sessions, cancel_token, scheduler_lock, loops, calls>>

UnitUpdateTaskWrite(u) ==
    /\ units[u].pc = "write"
    /\ sessions' = Store(units[u].rmw)
    /\ units' = [units EXCEPT ![u] = EndedUnit]
    /\ UNCHANGED <<cancel_token, scheduler_lock, loops, calls>>

\* ---------------------------------------------------------- external calls

CallIds ==
    ({"start"} \X (1..MaxStarts)) \cup ({"pause"} \X (1..MaxPauses))
        \cup ({"cancel"} \X (1..MaxCancels)) \cup ({"submit"} \X (1..MaxSubmits))
        \cup ({"update"} \X (1..MaxUpdatePlans)) \cup ({"generate"} \X (1..MaxGeneratePlans))
        \cup ({"snapshot"} \X (1..MaxSnapshots))

\* the request of a call, as far as a handler looks at it: cowork_session_id,
\* tasks and task_order (update_plan), task_id (submit_user_input)
NoReq == [sid |-> "", tasks |-> <<>>, task_order |-> <<>>, task_id |-> ""]

NoCall == [pc |-> "idle", rmw |-> NoSession, result |-> "", req |-> NoReq]

\* the request of a call made with the id of the stored session
SessionReq == [NoReq EXCEPT !.sid = SID]

NoHolder == <<>>

Returned(c, result) ==
    [calls EXCEPT ![c] = [NoCall EXCEPT !.pc = "done", !.result = result, !.req = calls[c].req]]

\* a return that tells the caller Ok whatever happened
ReturnedOk(c, req, result) ==
    [calls EXCEPT ![c] = [NoCall EXCEPT !.pc = "done", !.result = "Ok", !.req = req]]

\* a call that returns in the step in which it is made
ReturnedAtOnce(c, req, result) ==
    [calls EXCEPT ![c] = [NoCall EXCEPT !.pc = "done", !.result = result, !.req = req]]

\* the calls of one kind are made in the order of their numbers
MayBegin(c) ==
    /\ c \in CallIds
    /\ calls[c].pc = "idle"
    /\ IF c[2] = 1 THEN TRUE ELSE calls[<<c[1], c[2] - 1>>].pc # "idle"

\* manager.rs 332-342
answer_task(t, answers) ==
    [t EXCEPT !.user_answers = answers,
              !.state = IF @ = "WaitingUserInput" THEN "Ready" ELSE @]

\* submit_user_input, manager.rs 325-349: the session is read and the first
\* task with the id changed in the clone; NotFound if there is none
SubmitUserInputRead(n, task_id, answers) ==
    /\ MayBegin(<<"submit", n>>)
    /\ IF task_id \in TaskIds(Sess.tasks)
       THEN LET k == Min({j \in DOMAIN Sess.tasks : Sess.tasks[j].id = task_id})
            IN  calls' = [calls EXCEPT ![<<"submit", n>>] =
                    [NoCall EXCEPT !.pc = "write", !.req = [SessionReq EXCEPT !.task_id = task_id],
                        !.rmw = [Sess EXCEPT !.tasks[k] = answer_task(@, answers)]]]
       ELSE calls' = ReturnedAtOnce(<<"submit", n>>, [SessionReq EXCEPT !.task_id = task_id],
                                    "NotFound")
    /\ UNCHANGED <<sessions, cancel_token, scheduler_lock, loops, units>>

\* manager.rs 352: sessions.insert
SubmitUserInputWrite(n) ==
    /\ <<"submit", n>> \in CallIds
    /\ calls[<<"submit", n>>].pc = "write"
    /\ sessions' = Store(calls[<<"submit", n>>].rmw)
    /\ calls' = Returned(<<"submit", n>>, "Ok")
    /\ UNCHANGED <<cancel_token, scheduler_lock, loops, units>>

\* update_session_state called by an external call, manager.rs 404-410:
\* the session is read and the state set in the clone
CallStateRead(c, state) ==
    calls' = [calls EXCEPT ![c].pc = "write", ![c].rmw = [Sess EXCEPT !.state = state],
                           ![c].req = SessionReq]

\* a call that was made and is suspended in scheduler_lock.lock().await
WaitingCall == [NoCall EXCEPT !.pc = "waiting", !.req = SessionReq]

\* the call is made now, or was made before and has been waiting since
AtLock(c) == IF calls[c].pc = "waiting" THEN TRUE ELSE MayBegin(c)

\* start, manager.rs 276-283: scheduler_lock.lock().await returns the guard
StartLock(n) ==
    /\ AtLock(<<"start", n>>)
    /\ scheduler_lock = NoHolder
    /\ scheduler_lock' = <<"start", n>>
    /\ calls' = [calls EXCEPT ![<<"start", n>>].pc = "locked", ![<<"start", n>>].req = SessionReq]
    /\ UNCHANGED <<sessions, cancel_token, loops, units>>

\* manager.rs 285-289: the snapshot; a Running session returns Ok(()) and
\* the guard is dropped
StartCheck(n) ==
    /\ <<"start", n>> \in CallIds
    /\ calls[<<"start", n>>].pc = "locked"
    /\ IF Sess.state = "Running"
       THEN /\ calls' = Returned(<<"start", n>>, "AlreadyRunning")
            /\ scheduler_lock' = NoHolder
       ELSE /\ calls' = [calls EXCEPT ![<<"start", n>>].pc = "read"]
            /\ UNCHANGED scheduler_lock
    /\ UNCHANGED <<sessions, cancel_token, loops, units>>

\* manager.rs 291: update_session_state(Running), first half
StartRead(n) ==
    /\ <<"start", n>> \in CallIds
    /\ calls[<<"start", n>>].pc = "read"
    /\ CallStateRead(<<"start", n>>, "Running")
    /\ UNCHANGED <<sessions, cancel_token, scheduler_lock, loops, units>>

Launched == {l \in LoopIds : loops[l].pc # "none"}

\* manager.rs 291-307: the insert, tokio::spawn of run_scheduler_loop, and
\* the return, which drops the guard
StartWrite(n) ==
    /\ <<"start", n>> \in CallIds
    /\ calls[<<"start", n>>].pc = "write"
    /\ sessions' = Store(calls[<<"start", n>>].rmw)
    /\ loops' = [loops EXCEPT ![Cardinality(Launched) + 1] = NewLoop]
    /\ scheduler_lock' = NoHolder
    /\ calls' = Returned(<<"start", n>>, "Ok")
    /\ UNCHANGED <<cancel_token, units>>

\* pause, manager.rs 310-313: update_session_state(Paused)
PauseRead(n) ==
    /\ MayBegin(<<"pause", n>>)
    /\ CallStateRead(<<"pause", n>>, "Paused")
    /\ UNCHANGED <<sessions, cancel_token, scheduler_lock, loops, units>>

\* cancel, manager.rs 316-318: rt.cancel_token.cancel()
CancelSignal(n) ==
    /\ MayBegin(<<"cancel", n>>)
    /\ cancel_token' = TRUE
    /\ calls' = [calls EXCEPT ![<<"cancel", n>>].pc = "read", ![<<"cancel", n>>].req = SessionReq]
    /\ UNCHANGED <<sessions, scheduler_lock, loops, units>>

\* manager.rs 319: update_session_state(Cancelled), first half
CancelRead(n) ==
    /\ <<"cancel", n>> \in CallIds
    /\ calls[<<"cancel", n>>].pc = "read"
    /\ CallStateRead(<<"cancel", n>>, "Cancelled")
    /\ UNCHANGED <<sessions, cancel_token, scheduler_lock, loops, units>>

\* manager.rs 411 for pause and cancel: sessions.insert
CallStateWrite(c) ==
    /\ c \in CallIds
    /\ calls[c].pc = "write"
    /\ sessions' = Store(calls[c].rmw)
    /\ calls' = Returned(c, "Ok")
    /\ UNCHANGED <<cancel_token, scheduler_lock, loops, units>>

\* --------------------------------------------------------------- planning

\* get_session_snapshot, manager.rs 38-45: the clone of the stored session,
\* or NotFound
GetSessionSnapshot(n, sid) ==
    /\ MayBegin(<<"snapshot", n>>)
    /\ IF sid \in DOMAIN sessions
       THEN calls' = [calls EXCEPT ![<<"snapshot", n>>] =
                [pc |-> "done", rmw |-> sessions[sid], result |-> "Ok",
                 req |-> [NoReq EXCEPT !.sid = sid]]]
       ELSE calls' = ReturnedAtOnce(<<"snapshot", n>>, [NoReq EXCEPT !.sid = sid], "NotFound")
    /\ UNCHANGED <<sessions, cancel_token, scheduler_lock, loops, units>>

\* start, pause, cancel and submit_user_input with a session id that the
\* manager does not hold: runtimes.get fails in start (manager.rs 276-280),
\* sessions.get fails in update_session_state (404-407) and in
\* submit_user_input (325-329); cancel finds no runtime and cancels nothing
UnknownSession(c, sid) ==
    /\ c[1] \in {"start", "pause", "cancel", "submit"}
    /\ MayBegin(c)
    /\ sid \notin DOMAIN sessions
    /\ calls' = ReturnedAtOnce(c, [NoReq EXCEPT !.sid = sid], "NotFound")
    /\ UNCHANGED <<sessions, cancel_token, scheduler_lock, loops, units>>

\* a validation that accepts every plan
deps_unchecked(tasks) == TRUE

\* update_plan, manager.rs 237-249: deps must reference existing tasks
deps_known(tasks) ==
    \A k \in DOMAIN tasks :
        \A j \in DOMAIN tasks[k].deps : tasks[k].deps[j] \in TaskIds(tasks)

\* manager.rs 251-257
install_plan(session, tasks, task_order) ==
    [session EXCEPT !.tasks = tasks,
                    !.task_order = IF task_order = <<>>
                                   THEN [k \in DOMAIN tasks |-> tasks[k].id]
                                   ELSE task_order,
                    !.state = "Ready"]

\* update_plan, manager.rs 231-257: the session is read, the request
\* validated and the plan put into the clone
UpdatePlanRead(n, req) ==
    /\ MayBegin(<<"update", n>>)
    /\ IF req.sid \notin DOMAIN sessions
       THEN calls' = ReturnedAtOnce(<<"update", n>>, req, "NotFound")
       ELSE IF ~deps_known(req.tasks)
       THEN calls' = ReturnedAtOnce(<<"update", n>>, req, "Validation")
       ELSE calls' = [calls EXCEPT ![<<"update", n>>] =
                [pc |-> "write", result |-> "", req |-> req,
                 rmw |-> install_plan(sessions[req.sid], req.tasks, req.task_order)]]
    /\ UNCHANGED <<sessions, cancel_token, scheduler_lock, loops, units>>

\* manager.rs 259: sessions.insert
UpdatePlanWrite(n) ==
    /\ <<"update", n>> \in CallIds
    /\ calls[<<"update", n>>].pc = "write"
    /\ sessions' = [sessions EXCEPT ![calls[<<"update", n>>].req.sid] = calls[<<"update", n>>].rmw]
    /\ calls' = Returned(<<"update", n>>, "Ok")
    /\ UNCHANGED <<cancel_token, scheduler_lock, loops, units>>

\* Option<String> assignee_role: None is the empty tuple, Some(r) is <<r>>
NoRole == <<>>

\* str::to_lowercase on the names that occur
to_lowercase(str) ==
    CASE str = "Planner" -> "planner"
      [] str = "Developer" -> "developer"
      [] str = "Reviewer" -> "reviewer"
      [] str = "REVIEWER" -> "reviewer"
      [] str = "Researcher" -> "researcher"
      [] str = "Engineer" -> "engineer"
      [] str = "Alice" -> "alice"
      [] str = "QA" -> "qa"
      [] OTHER -> str

\* manager.rs 440-447: the id of the first member whose role or id matches
\* the role without regard to case; None (the empty tuple) if the role is
\* None or nothing matches
resolve_assignee(roster, assignee_role) ==
    IF assignee_role = NoRole THEN <<>>
    ELSE LET role_lc == to_lowercase(assignee_role[1])
             hits == {k \in DOMAIN roster :
                         \/ to_lowercase(roster[k].role) = role_lc
                         \/ to_lowercase(roster[k].id) = role_lc}
         IN  IF hits = {} THEN <<>> ELSE <<roster[Min(hits)].id>>

\* .unwrap_or_else(|| "developer".to_string()), manager.rs 168-169
assignee_of(roster, assignee_role) ==
    IF resolve_assignee(roster, assignee_role) = <<>> THEN "developer"
    ELSE resolve_assignee(roster, assignee_role)[1]

\* the largest dependency index a planner's answer holds
MaxIndex == 3

\* format!("idx:{}", i), planning.rs 161
idx_string(i) == <<"idx:0", "idx:1", "idx:2", "idx:3", "idx:4">>[i + 1]

\* dep.strip_prefix("idx:") and idx_str.parse::<usize>(), manager.rs 194-195:
\* Some(i) as <<i>>, None as the empty tuple
idx_parse(dep) ==
    IF \E i \in 0..MaxIndex : idx_string(i) = dep
    THEN <<CHOOSE i \in 0..MaxIndex : idx_string(i) = dep>>
    ELSE <<>>

\* a task of the planner's JSON (planning.rs 129-140): deps are indices
RawTask(deps, assignee_role, questions) ==
    [deps |-> deps, assignee_role |-> assignee_role, questions |-> questions]

\* parse_plan_json, planning.rs 155-166: indices become "idx:N" strings
PlanTaskDraft(t) == [t EXCEPT !.deps = [k \in DOMAIN t.deps |-> idx_string(t.deps[k])]]

\* format!("task-{}-{}", idx + 1, uuid::Uuid::new_v4()), manager.rs 167: the
\* uuids of one generate_plan call differ from those of every other call
new_task_id(n, idx) == <<<<"T1", "T2", "T3">>, <<"U1", "U2", "U3">>>>[n][idx + 1]

\* manager.rs 190-205: a dep "idx:N" with N a position of the draft becomes
\* the id of the task at N; any other dep is kept as it is
resolve_dep(dep, id_by_index) ==
    IF idx_parse(dep) # <<>> /\ idx_parse(dep)[1] + 1 \in DOMAIN id_by_index
    THEN id_by_index[idx_parse(dep)[1] + 1]
    ELSE dep

\* manager.rs 162-205: the tasks built from a draft by call n for a roster;
\* resource_mode is not set from the draft and has its default
draft_tasks(n, roster, draft) ==
    LET id_by_index == [k \in DOMAIN draft |-> new_task_id(n, k - 1)]
    IN  [k \in DOMAIN draft |->
            [CoworkTask(id_by_index[k], <<>>, assignee_of(roster, draft[k].assignee_role),
                        "WorkspaceWrite", draft[k].questions)
                EXCEPT !.deps = [j \in DOMAIN draft[k].deps |->
                                    resolve_dep(draft[k].deps[j], id_by_index)]]]

\* generate_plan, manager.rs 127-134: the session is read and the state set
\* to Planning in the clone
GeneratePlanRead(n, sid) ==
    /\ MayBegin(<<"generate", n>>)
    /\ IF sid \notin DOMAIN sessions
       THEN calls' = ReturnedAtOnce(<<"generate", n>>, [NoReq EXCEPT !.sid = sid], "NotFound")
       ELSE calls' = [calls EXCEPT ![<<"generate", n>>] =
                [pc |-> "mark", result |-> "", req |-> [NoReq EXCEPT !.sid = sid],
                 rmw |-> [sessions[sid] EXCEPT !.state = "Planning"]]]
    /\ UNCHANGED <<sessions, cancel_token, scheduler_lock, loops, units>>

\* manager.rs 135-160: sessions.insert, then the planner is awaited; the
\* local session goes on being used
GeneratePlanMark(n) ==
    /\ <<"generate", n>> \in CallIds
    /\ calls[<<"generate", n>>].pc = "mark"
    /\ sessions' = [sessions EXCEPT ![calls[<<"generate", n>>].req.sid] =
                        calls[<<"generate", n>>].rmw]
    /\ calls' = [calls EXCEPT ![<<"generate", n>>].pc = "planner"]
    /\ UNCHANGED <<cancel_token, scheduler_lock, loops, units>>

\* what the planner's subagent gives: an error of execute_subagent, a text
\* without a JSON object of the schema, or a JSON plan
PlannerError == [kind |-> "error", tasks |-> <<>>]

PlannerNoise == [kind |-> "noise", tasks |-> <<>>]

PlannerJson(tasks) == [kind |-> "json", tasks |-> tasks]

\* generate_plan_via_planner with parse_plan_json (planning.rs 50-54 and
\* 112-168) and manager.rs 160-226: an error is returned to the caller with
\* the session as it is; a draft is turned into tasks, put into the local
\* session with state Ready, and inserted
GeneratePlanInstall(n, out) ==
    /\ <<"generate", n>> \in CallIds
    /\ calls[<<"generate", n>>].pc = "planner"
    /\ IF out.kind = "error"
       THEN /\ calls' = Returned(<<"generate", n>>, "Error")
            /\ UNCHANGED sessions
       ELSE IF out.kind = "noise" \/ out.tasks = <<>>
       THEN /\ calls' = Returned(<<"generate", n>>, "AIClient")
            /\ UNCHANGED sessions
       ELSE LET session == calls[<<"generate", n>>].rmw
                draft == [k \in DOMAIN out.tasks |-> PlanTaskDraft(out.tasks[k])]
                tasks == draft_tasks(n, session.roster, draft)
            IN  /\ sessions' = [sessions EXCEPT ![calls[<<"generate", n>>].req.sid] =
                                    install_plan(session, tasks, <<>>)]
                /\ calls' = Returned(<<"generate", n>>, "Ok")
    /\ UNCHANGED <<cancel_token, scheduler_lock, loops, units>>

\* ------------------------------------------------------------------- plans

Roster2 ==
    <<CoworkRosterMember("developer", "Developer"), CoworkRosterMember("reviewer", "Reviewer")>>

\* a roster supplied by the caller of create_session: one member
RosterAlice == <<CoworkRosterMember("alice", "Engineer")>>

\* a task whose question is answered before the session is started, and a
\* task that depends on it and has a question nobody has answered yet
ClarifyTasks ==
    <<[CoworkTask("T1", <<>>, "developer", "WorkspaceWrite", <<"q">>)
           EXCEPT !.user_answers = <<"a">>],
      CoworkTask("T2", <<"T1">>, "reviewer", "WorkspaceWrite", <<"q">>)>>

\* two tasks that both write the workspace and do not depend on each other
WriterTasks ==
    <<CoworkTask("T1", <<>>, "developer", "WorkspaceWrite", <<>>),
      CoworkTask("T2", <<>>, "reviewer", "WorkspaceWrite", <<>>)>>

\* a task and its dependent, both for the only member of the roster
ChainTasks ==
    <<CoworkTask("T1", <<>>, "alice", "WorkspaceWrite", <<>>),
      CoworkTask("T2", <<"T1">>, "alice", "WorkspaceWrite", <<>>)>>

\* a task with an open question, and a task with generate_plan's fallback
\* assignee "developer" in a roster that has no such member
OrphanTasks ==
    <<CoworkTask("T1", <<>>, "alice", "WorkspaceWrite", <<"q">>),
      CoworkTask("T2", <<>>, "developer", "WorkspaceWrite", <<>>)>>

\* two tasks that depend on each other, as update_plan accepts them
CycleTasks ==
    <<CoworkTask("T1", <<"T2">>, "developer", "WorkspaceWrite", <<>>),
      CoworkTask("T2", <<"T1">>, "developer", "WorkspaceWrite", <<>>)>>

\* a task that writes the workspace and a task that only reads it, neither
\* depending on the other
SharedTasks ==
    <<CoworkTask("T1", <<>>, "developer", "WorkspaceWrite", <<>>),
      CoworkTask("T3", <<>>, "reviewer", "ReadOnly", <<>>)>>

RunPlans ==
    {CoworkSession("Running", Roster2, ClarifyTasks),
     CoworkSession("Running", RosterAlice, OrphanTasks),
     CoworkSession("Running", Roster2, CycleTasks)}

SharedPlans ==
    {CoworkSession("Running", Roster2, SharedTasks),
     CoworkSession("Running", Roster2, ClarifyTasks),
     CoworkSession("Running", RosterAlice, OrphanTasks)}

ReadyPlans ==
    {CoworkSession("Ready", Roster2, WriterTasks),
     CoworkSession("Ready", RosterAlice, ChainTasks),
     CoworkSession("Ready", RosterAlice, OrphanTasks)}

Answers == {<<>>, <<"a">>}

\* ---------------------------------------------- a started session: SpecRun

\* start has returned: the session is Running and its loop is spawned
InitRun ==
    /\ sessions \in {[id \in {SID} |-> s] : s \in RunPlans}
    /\ cancel_token = FALSE
    /\ scheduler_lock = NoHolder
    /\ loops = [l \in LoopIds |-> IF l = 1 THEN NewLoop ELSE NoLoop]
    /\ units = [u \in UnitIds |-> NoUnit]
    /\ calls = [c \in CallIds |-> IF c = <<"start", 1>>
                                   THEN [NoCall EXCEPT !.pc = "done", !.result = "Ok",
                                                       !.req = SessionReq]
                                   ELSE NoCall]

LoopStep(l) ==
    \/ LoopSnapshot(l)
    \/ LoopHitl(l)
    \/ LoopHitlWrite(l)
    \/ LoopBlock(l)
    \/ LoopBlockWrite(l)
    \/ LoopFinishRead(l)
    \/ LoopFinishWrite(l)
    \/ LoopDispatch(l)
    \/ LoopDispatchWrite(l)
    \/ LoopErrorRead(l)
    \/ LoopErrorWrite(l)

UnitStep(u) ==
    \/ \E result \in ExecResults : UnitFinish(u, result)
    \/ UnitReport(u)
    \/ UnitUpdateTaskWrite(u)

SubmitStep(n) ==
    \/ \E task_id \in TaskIds(Sess.tasks), answers \in Answers :
            SubmitUserInputRead(n, task_id, answers)
    \/ SubmitUserInputWrite(n)

NextRun ==
    \/ \E l \in LoopIds : LoopStep(l)
    \/ \E u \in UnitIds : UnitStep(u)
    \/ \E n \in 1..MaxSubmits : SubmitStep(n)

SpecRun == InitRun /\ [][NextRun]_vars

\* ------------- a started session with a task that only reads: SpecShared

InitShared ==
    /\ sessions \in {[id \in {SID} |-> s] : s \in SharedPlans}
    /\ cancel_token = FALSE
    /\ scheduler_lock = NoHolder
    /\ loops = [l \in LoopIds |-> IF l = 1 THEN NewLoop ELSE NoLoop]
    /\ units = [u \in UnitIds |-> NoUnit]
    /\ calls = [c \in CallIds |-> IF c = <<"start", 1>>
                                   THEN [NoCall EXCEPT !.pc = "done", !.result = "Ok",
                                                       !.req = SessionReq]
                                   ELSE NoCall]

SpecShared == InitShared /\ [][NextRun]_vars

\* the loop, its units and a call that has begun are tokio tasks of a
\* multi-threaded runtime: each is polled again as long as it can go on.
\* Nothing makes the user answer a question
SpecRunFair ==
    /\ SpecRun
    /\ \A l \in LoopIds : WF_vars(LoopStep(l))
    /\ \A u \in UnitIds : WF_vars(UnitStep(u))
    /\ \A n \in 1..MaxSubmits : WF_vars(SubmitUserInputWrite(n))

\* ---------------------------------------------- a planned session: Init

\* generate_plan or update_plan has returned: the plan is installed, the
\* session is Ready and nothing runs yet
Init ==
    /\ sessions \in {[id \in {SID} |-> s] : s \in ReadyPlans}
    /\ cancel_token = FALSE
    /\ scheduler_lock = NoHolder
    /\ loops = [l \in LoopIds |-> NoLoop]
    /\ units = [u \in UnitIds |-> NoUnit]
    /\ calls = [c \in CallIds |-> NoCall]

StartStep(n) ==
    \/ StartLock(n)
    \/ StartCheck(n)
    \/ StartRead(n)
    \/ StartWrite(n)

PauseStep(n) ==
    \/ PauseRead(n)
    \/ CallStateWrite(<<"pause", n>>)

CancelStep(n) ==
    \/ CancelSignal(n)
    \/ CancelRead(n)
    \/ CallStateWrite(<<"cancel", n>>)

\* ------------------------------------------- start called twice: SpecStart

\* every start call has been made and none has got the lock yet: the calls
\* are concurrent
InitStart ==
    /\ sessions \in {[id \in {SID} |-> s] : s \in ReadyPlans}
    /\ cancel_token = FALSE
    /\ scheduler_lock = NoHolder
    /\ loops = [l \in LoopIds |-> NoLoop]
    /\ units = [u \in UnitIds |-> NoUnit]
    /\ calls = [c \in CallIds |-> IF c[1] = "start" THEN WaitingCall ELSE NoCall]

NextStart ==
    \/ \E l \in LoopIds : LoopStep(l)
    \/ \E u \in UnitIds : UnitStep(u)
    \/ \E n \in 1..MaxStarts : StartStep(n)

SpecStart == InitStart /\ [][NextStart]_vars

\* ------------------------------------------------- start and pause: Spec

Next ==
    \/ \E l \in LoopIds : LoopStep(l)
    \/ \E u \in UnitIds : UnitStep(u)
    \/ \E n \in 1..MaxStarts : StartStep(n)
    \/ \E n \in 1..MaxPauses : PauseStep(n)

Spec == Init /\ [][Next]_vars

\* ---------------------------------- a started session cancelled: SpecCancel

NextCancel ==
    \/ \E l \in LoopIds : LoopStep(l)
    \/ \E u \in UnitIds : UnitStep(u)
    \/ \E n \in 1..MaxSubmits : SubmitStep(n)
    \/ \E n \in 1..MaxCancels : CancelStep(n)

SpecCancel == InitRun /\ [][NextCancel]_vars

\* ------------------------------------ planning a created session: SpecPlan

\* create_session with an empty roster, manager.rs 51-81
DefaultRoster ==
    <<CoworkRosterMember("planner", "Planner"), CoworkRosterMember("developer", "Developer"),
      CoworkRosterMember("reviewer", "Reviewer"), CoworkRosterMember("researcher", "Researcher")>>

\* a task whose deps name its predecessor and an id that no task has
DanglingTasks ==
    <<CoworkTask("T1", <<>>, "developer", "WorkspaceWrite", <<>>),
      CoworkTask("T2", <<"T1", "T9">>, "developer", "WorkspaceWrite", <<>>)>>

\* the session ids calls are made with: the session's, and one that
\* create_session never returned
SessionIdInputs == {SID, "s0"}

UpdatePlanRequests ==
    {[sid |-> sid, tasks |-> tasks, task_order |-> order, task_id |-> ""] :
        sid \in SessionIdInputs, tasks \in {WriterTasks, DanglingTasks, CycleTasks},
        order \in {<<>>, <<"T2", "T1">>}}

\* assignee roles of a planner's answer: omitted, a role of the default
\* roster, one in another case, a member id, and a role that no roster has
RoleInputs == {NoRole, <<"Developer">>, <<"REVIEWER">>, <<"Alice">>, <<"QA">>}

\* plans of one task with every role, a plan of one task that depends on
\* its own position, and plans of two tasks whose second task depends on
\* the first, on a position past the end, or on both
RawPlans ==
    {<<RawTask(<<>>, role, <<>>)>> : role \in RoleInputs}
        \cup {<<RawTask(<<0>>, <<"Developer">>, <<>>)>>}
        \cup {<<RawTask(<<>>, <<"Developer">>, <<"q">>), RawTask(deps, NoRole, <<>>)>> :
                deps \in {<<0>>, <<2>>, <<0, 3>>}}

PlannerResults ==
    {PlannerError, PlannerNoise, PlannerJson(<<>>)} \cup {PlannerJson(p) : p \in RawPlans}

\* create_session has returned, manager.rs 86-104: the session is Draft
\* with the default roster or the caller's, and has no tasks
InitPlan ==
    /\ sessions \in {[id \in {SID} |-> CoworkSession("Draft", roster, <<>>)] :
                        roster \in {DefaultRoster, RosterAlice}}
    /\ cancel_token = FALSE
    /\ scheduler_lock = NoHolder
    /\ loops = [l \in LoopIds |-> NoLoop]
    /\ units = [u \in UnitIds |-> NoUnit]
    /\ calls = [c \in CallIds |-> NoCall]

UpdatePlanStep(n) ==
    \/ \E req \in UpdatePlanRequests : UpdatePlanRead(n, req)
    \/ UpdatePlanWrite(n)

GeneratePlanStep(n) ==
    \/ \E sid \in SessionIdInputs : GeneratePlanRead(n, sid)
    \/ GeneratePlanMark(n)
    \/ \E out \in PlannerResults : GeneratePlanInstall(n, out)

NextPlan ==
    \/ \E n \in 1..MaxUpdatePlans : UpdatePlanStep(n)
    \/ \E n \in 1..MaxGeneratePlans : GeneratePlanStep(n)

SpecPlan == InitPlan /\ [][NextPlan]_vars

\* ------------------------------- calls with unknown ids: SpecUnknown

\* the task ids submit_user_input is called with: a task's, and one that no
\* task of the session has
TaskIdInputs == {"T1", "T9"}

SubmitAnyStep(n) ==
    \/ \E id \in TaskIdInputs, answers \in Answers : SubmitUserInputRead(n, id, answers)
    \/ SubmitUserInputWrite(n)

NextUnknown ==
    \/ \E c \in CallIds, sid \in SessionIdInputs : UnknownSession(c, sid)
    \/ \E n \in 1..MaxSnapshots, sid \in SessionIdInputs : GetSessionSnapshot(n, sid)
    \/ \E n \in 1..MaxUpdatePlans : UpdatePlanStep(n)
    \/ \E n \in 1..MaxSubmits : SubmitAnyStep(n)
    \/ \E n \in 1..MaxPauses : PauseStep(n)
    \/ \E n \in 1..MaxCancels : CancelStep(n)

SpecUnknown == Init /\ [][NextUnknown]_vars

\* ------------------- a started session, its notifications and update_plan:
\* SpecEmit

\* a unit that skips update_task and goes on to its notifications
UnitSkipPersist(u) ==
    /\ units[u].pc = "write"
    /\ units' = [units EXCEPT ![u].pc = IF units[u].task.state = "Completed"
                                        THEN "emit_out" ELSE "emit_state",
                              ![u].rmw = NoSession]
    /\ UNCHANGED <<sessions, cancel_token, scheduler_lock, loops, calls>>

\* scheduler.rs 268 and 298: update_task returned Ok, so the unit goes on to
\* emit task-output (Ok branch, 276-286) or task-state-changed (288, 305)
UnitPersist(u) ==
    /\ units[u].pc = "write"
    /\ sessions' = Store(units[u].rmw)
    /\ units' = [units EXCEPT ![u].pc = IF units[u].task.state = "Completed"
                                        THEN "emit_out" ELSE "emit_state",
                              ![u].rmw = NoSession]
    /\ UNCHANGED <<cancel_token, scheduler_lock, loops, calls>>

\* scheduler.rs 276-286: emit_cowork_event("cowork://task-output", ..)
UnitEmitOutput(u) ==
    /\ units[u].pc = "emit_out"
    /\ units' = [units EXCEPT ![u].pc = "emit_state"]
    /\ UNCHANGED <<sessions, cancel_token, scheduler_lock, loops, calls>>

\* scheduler.rs 288 and 305: emit_task_state_changed(.., &task); the unit ends
UnitEmitState(u) ==
    /\ units[u].pc = "emit_state"
    /\ units' = [units EXCEPT ![u] = EndedUnit]
    /\ UNCHANGED <<sessions, cancel_token, scheduler_lock, loops, calls>>

\* the JoinSet of the unit's loop was dropped while the unit was suspended in
\* an emit: the unit ends there
UnitAborted(u) ==
    /\ units[u].pc \in {"emit_out", "emit_state"}
    /\ loops[units[u].owner].pc \in {"exited", "err", "err_w"}
    /\ units' = [units EXCEPT ![u] = EndedUnit]
    /\ UNCHANGED <<sessions, cancel_token, scheduler_lock, loops, calls>>

\* manager.update_task, second half, called by a pass that emits next: the
\* task record is kept for the notification
LoopPersist(l, pcw, pce) ==
    /\ loops[l].pc = pcw
    /\ sessions' = Store(loops[l].rmw)
    /\ loops' = [loops EXCEPT ![l].pc = pce, ![l].rmw = NoSession]
    /\ UNCHANGED <<cancel_token, scheduler_lock, units, calls>>

\* an emit of a pass: emit_cowork_event or emit_task_state_changed
LoopEmit(l, pce, pcn) ==
    /\ loops[l].pc = pce
    /\ loops' = [loops EXCEPT ![l].pc = pcn,
                              ![l].task = IF pcn \in {"hitl", "block"} THEN NoTask ELSE @]
    /\ UNCHANGED <<sessions, cancel_token, scheduler_lock, units, calls>>

\* scheduler.rs 91: the insert of the HITL pass
LoopHitlPersist(l) == LoopPersist(l, "hitl_w", "hitl_e")

\* scheduler.rs 92-101: needs-user-input
LoopHitlEmitInput(l) == LoopEmit(l, "hitl_e", "hitl_s")

\* scheduler.rs 102: task-state-changed
LoopHitlEmitState(l) == LoopEmit(l, "hitl_s", "hitl")

\* scheduler.rs 125: the insert of the blocking pass
LoopBlockPersist(l) == LoopPersist(l, "block_w", "block_e")

\* scheduler.rs 126: task-state-changed
LoopBlockEmit(l) == LoopEmit(l, "block_e", "block")

\* scheduler.rs 229: the insert of the dispatch pass
LoopDispatchPersist(l) == LoopPersist(l, "disp_w", "disp_e")

\* scheduler.rs 230-308: task-state-changed, then the counters and
\* join_set.spawn with task_for_run = task.clone()
LoopDispatchEmit(l) ==
    /\ loops[l].pc = "disp_e"
    /\ FreeUnits # {}
    /\ units' = [units EXCEPT ![Min(FreeUnits)] =
                     [pc |-> "exec", owner |-> l, task |-> loops[l].task, rmw |-> NoSession]]
    /\ loops' = [loops EXCEPT
            ![l].pc = "disp", ![l].task = NoTask,
            ![l].running_total = @ + 1, ![l].scheduled_any = TRUE,
            ![l].has_workspace_write_running =
                @ \/ loops[l].task.resource_mode = "WorkspaceWrite"]
    /\ UNCHANGED <<sessions, cancel_token, scheduler_lock, calls>>

LoopEmitStep(l) ==
    \/ LoopSnapshot(l)
    \/ LoopHitl(l)
    \/ LoopHitlPersist(l)
    \/ LoopHitlEmitInput(l)
    \/ LoopHitlEmitState(l)
    \/ LoopBlock(l)
    \/ LoopBlockPersist(l)
    \/ LoopBlockEmit(l)
    \/ LoopFinishRead(l)
    \/ LoopFinishWrite(l)
    \/ LoopDispatch(l)
    \/ LoopDispatchPersist(l)
    \/ LoopDispatchEmit(l)
    \/ LoopErrorRead(l)
    \/ LoopErrorWrite(l)

UnitEmitStep(u) ==
    \/ \E result \in ExecResults : UnitFinish(u, result)
    \/ UnitReport(u)
    \/ UnitPersist(u)
    \/ UnitEmitOutput(u)
    \/ UnitEmitState(u)
    \/ UnitAborted(u)

\* the plans update_plan is called with while the loop runs: the stored
\* tasks as a client read them before start, a plan without T2, and the
\* two tasks with a task_order that names only T1
ReplanRequests ==
    {[sid |-> SID, tasks |-> ChainTasks, task_order |-> <<>>, task_id |-> ""],
     [sid |-> SID, tasks |-> <<ChainTasks[1]>>, task_order |-> <<>>, task_id |-> ""],
     [sid |-> SID, tasks |-> ChainTasks, task_order |-> <<"T1">>, task_id |-> ""]}

ReplanStep(n) ==
    \/ \E req \in ReplanRequests : UpdatePlanRead(n, req)
    \/ UpdatePlanWrite(n)

EmitPlans ==
    {CoworkSession("Running", RosterAlice, ChainTasks),
     CoworkSession("Running", RosterAlice, OrphanTasks)}

InitEmit ==
    /\ sessions \in {[id \in {SID} |-> s] : s \in EmitPlans}
    /\ cancel_token = FALSE
    /\ scheduler_lock = NoHolder
    /\ loops = [l \in LoopIds |-> IF l = 1 THEN NewLoop ELSE NoLoop]
    /\ units = [u \in UnitIds |-> NoUnit]
    /\ calls = [c \in CallIds |-> IF c = <<"start", 1>>
                                   THEN [NoCall EXCEPT !.pc = "done", !.result = "Ok",
                                                       !.req = SessionReq]
                                   ELSE NoCall]

NextEmit ==
    \/ \E l \in LoopIds : LoopEmitStep(l)
    \/ \E u \in UnitIds : UnitEmitStep(u)
    \/ \E n \in 1..MaxUpdatePlans : ReplanStep(n)

SpecEmit == InitEmit /\ [][NextEmit]_vars

\* --------------------------- the planner's text, parsed: SpecParse

\* the longest text the planner gives
MaxText == 3

\* the characters of a planner's text: the braces, a well-formed "tasks"
\* member with one task (t), a well-formed empty "tasks" member (e), and any
\* other character (x)
TextChars == {"{", "}", "t", "e", "x"}

PlannerTexts == UNION {[1..n -> TextChars] : n \in 0..MaxText}

\* str::find: Some(the first position of ch) as <<i>>, None as <<>>
find(text, ch) ==
    IF \E i \in DOMAIN text : text[i] = ch
    THEN <<Min({i \in DOMAIN text : text[i] = ch})>>
    ELSE <<>>

\* str::rfind: the last position
rfind(text, ch) ==
    IF \E i \in DOMAIN text : text[i] = ch
    THEN <<Max({i \in DOMAIN text : text[i] = ch})>>
    ELSE <<>>

\* the outcomes of parse_plan_json: Ok(PlanDraft), Err(AIClient), and the
\* panic of &model_text[start..=end], which unwinds the caller
ParseDraft(tasks) == [kind |-> "draft", tasks |-> tasks]

ParseAIClient == [kind |-> "AIClient", tasks |-> <<>>]

ParsePanic == [kind |-> "panic", tasks |-> <<>>]

\* the plan that the member t stands for
OneTaskPlan == <<RawTask(<<>>, <<"Developer">>, <<>>)>>

\* planning.rs 112-151: the slice start..=end is taken whenever both braces
\* occur; a range whose start is past end + 1 panics (end + 1 = start gives
\* the empty string, which serde_json rejects)
parse_plan_json(text) ==
    LET start == find(text, "{")
        end == rfind(text, "}")
    IN  IF start = <<>> \/ end = <<>> THEN ParseAIClient
        ELSE IF start[1] > end[1] + 1 THEN ParsePanic
        ELSE LET json_str == SubSeq(text, start[1], end[1])
             IN  IF json_str = <<"{", "t", "}">> THEN ParseDraft(OneTaskPlan)
                 ELSE ParseAIClient

\* generate_plan_via_planner returns parse_plan_json(&result.text)
\* (planning.rs 54) and generate_plan goes on with the draft or returns the
\* error (manager.rs 154-226); a panic ends the call without a return
GeneratePlanParse(n, text) ==
    LET out == parse_plan_json(text)
    IN  IF out.kind = "panic"
        THEN /\ <<"generate", n>> \in CallIds
             /\ calls[<<"generate", n>>].pc = "planner"
             /\ calls' = [calls EXCEPT ![<<"generate", n>>].pc = "panicked"]
             /\ UNCHANGED <<sessions, cancel_token, scheduler_lock, loops, units>>
        ELSE GeneratePlanInstall(n, IF out.kind = "draft"
                                    THEN PlannerJson(out.tasks) ELSE PlannerNoise)

GenerateParseStep(n) ==
    \/ \E sid \in SessionIdInputs : GeneratePlanRead(n, sid)
    \/ GeneratePlanMark(n)
    \/ GeneratePlanInstall(n, PlannerError)
    \/ \E text \in PlannerTexts : GeneratePlanParse(n, text)

NextParse ==
    \/ \E n \in 1..MaxUpdatePlans : UpdatePlanStep(n)
    \/ \E n \in 1..MaxGeneratePlans : GenerateParseStep(n)

SpecParse == InitPlan /\ [][NextParse]_vars

\* ------------------ planning a created session that is cancelled or
\* paused meanwhile: SpecPlanCancel

NextPlanCancel ==
    \/ \E n \in 1..MaxUpdatePlans : UpdatePlanStep(n)
    \/ \E n \in 1..MaxGeneratePlans : GeneratePlanStep(n)
    \/ \E n \in 1..MaxPauses : PauseStep(n)
    \/ \E n \in 1..MaxCancels : CancelStep(n)

SpecPlanCancel == InitPlan /\ [][NextPlanCancel]_vars

\* ================================================================== claims

Writers(tasks) ==
    {k \in DOMAIN tasks :
        tasks[k].state = "Running" /\ tasks[k].resource_mode = "WorkspaceWrite"}

\* a unit suspended in execute_subagent for a WorkspaceWrite task
WritersInFlight ==
    {u \in UnitIds : units[u].pc = "exec" /\ units[u].task.resource_mode = "WorkspaceWrite"}

\* the loops whose run_scheduler_loop has been spawned and has not returned
LoopsExecuting == {l \in LoopIds : loops[l].pc \notin {"none", "exited", "err", "err_w"}}

StartDone(n) == calls[<<"start", n>>].pc = "done"

\* C1: in every reachable state at most one task with resource_mode
\* WorkspaceWrite is stored in state Running
C1_OneWriterRunning == Cardinality(Writers(Sess.tasks)) <= 1

\* C2: in every reachable state at most one execution unit for a
\* WorkspaceWrite task is in flight (spawned, not yet returned from
\* execute_subagent, not aborted), also while submit_user_input changes the
\* session
C2_OneWriterInFlight == Cardinality(WritersInFlight) <= 1

\* C3: in every reachable state at most one scheduler loop of the session is
\* executing, whatever start and pause calls were made
C3_OneLoopExecuting == Cardinality(LoopsExecuting) <= 1

\* C4: when two start calls made concurrently on a session that was not
\* Running have both returned, exactly one loop has been launched and the
\* call that came second returned because it observed Running
C4_OneLoopLaunched ==
    (StartDone(1) /\ StartDone(2)) =>
        /\ Cardinality(Launched) = 1
        /\ \E n \in 1..2 : calls[<<"start", n>>].result = "AlreadyRunning"

\* C5: a task stored as Completed, Failed, Cancelled or Blocked keeps that
\* state in every step (of a loop pass, a unit report or submit_user_input)
C5_TerminalStays ==
    [][\A k \in DOMAIN Sess.tasks :
          Sess.tasks[k].state \in {"Completed", "Failed", "Cancelled", "Blocked"}
              => Sess'.tasks[k].state = Sess.tasks[k].state]_vars

DepFailed(a, b) ==
    /\ a \in DOMAIN Sess.tasks
    /\ b \in DOMAIN Sess.tasks
    /\ \E k \in DOMAIN Sess.tasks[a].deps : Sess.tasks[a].deps[k] = Sess.tasks[b].id
    /\ Sess.tasks[b].state \in {"Failed", "Cancelled", "Blocked"}
    /\ LoopsExecuting # {}

IsBlocked(a) == a \in DOMAIN Sess.tasks /\ Sess.tasks[a].state = "Blocked"

\* C6: whenever a dependency B of a task A is Failed, Cancelled or Blocked
\* while a scheduler loop is running, A is Blocked at some later time,
\* whether or not A has open questions
C6_DependentBlocked ==
    \A a \in 1..2 : \A b \in 1..2 : DepFailed(a, b) ~> IsBlocked(a)

\* C7: a task is dispatched (written as Running and given an execution unit)
\* only if every id in its deps is Completed in the snapshot of the store
\* that the dispatch pass works on; so T2 never starts before the store has
\* held T1 as Completed
C7_DepsCompletedAtDispatch ==
    \A l \in LoopIds :
        loops[l].pc = "disp_w" =>
            /\ loops[l].task.state = "Running"
            /\ \A k \in DOMAIN loops[l].task.deps :
                   \E j \in DOMAIN loops[l].snap.tasks :
                       /\ loops[l].snap.tasks[j].id = loops[l].task.deps[k]
                       /\ loops[l].snap.tasks[j].state = "Completed"

\* the loop is about to start T2, which depends on T1
C7_Witness ==
    \E l \in LoopIds :
        /\ loops[l].pc = "disp_w"
        /\ loops[l].task.id = "T2"
        /\ loops[l].task.deps = <<"T1">>

C9_NoDispatchWithoutAnswers ==
    /\ \A l \in LoopIds :
          /\ loops[l].pc = "disp_w" =>
                (loops[l].task.questions = <<>> \/ loops[l].task.user_answers # <<>>)
          /\ loops[l].pc = "hitl_w" =>
                /\ loops[l].task.questions # <<>>
                /\ loops[l].task.user_answers = <<>>
                /\ loops[l].task.state = "WaitingUserInput"
    /\ \A u \in UnitIds :
          units[u].pc \in {"exec", "report", "write"} =>
              (units[u].task.questions = <<>> \/ units[u].task.user_answers # <<>>)

\* a dispatch pass has passed over T2, whose dependency is Completed and
\* whose question is open, and the store holds T2 as WaitingUserInput
C9_Witness ==
    \E l \in LoopIds :
        /\ loops[l].pc = "disp"
        /\ Len(loops[l].snap.tasks) = 2
        /\ DispatchDue(l) = {}
        /\ loops[l].snap.tasks[1].state = "Completed"
        /\ loops[l].snap.tasks[2].questions # <<>>
        /\ loops[l].snap.tasks[2].user_answers = <<>>
        /\ Sess.tasks[2].state = "WaitingUserInput"

\* C10: a task that submit_user_input has made Ready with answers (it was
\* WaitingUserInput) is not moved back to WaitingUserInput by any step
C10_AnsweredStaysOut ==
    [][\A k \in DOMAIN Sess.tasks :
          (Sess.tasks[k].state = "Ready" /\ Sess.tasks[k].user_answers # <<>>)
              => Sess'.tasks[k].state # "WaitingUserInput"]_vars

\* a cancel call has returned
CancelReturned == \E n \in 1..MaxCancels : calls[<<"cancel", n>>].pc = "done"

\* C11: once cancel has returned on a session that was Running, with its
\* loop still executing, no task stored as Running (in flight) is stored as
\* Completed by a later step
C11_NoCompletedAfterCancel ==
    [][(CancelReturned /\ LoopsExecuting # {}) =>
          \A k \in DOMAIN Sess.tasks :
              Sess.tasks[k].state = "Running" => Sess'.tasks[k].state # "Completed"]_vars

\* C12: once cancel has returned and the session is stored as Cancelled,
\* every step (of the loop's completion check, its error handler, a unit's
\* report, submit_user_input or another cancel) leaves it Cancelled
C12_CancelledStays ==
    [][(CancelReturned /\ Sess.state = "Cancelled") => Sess'.state = "Cancelled"]_vars

\* a step of cancellation: a step of a cancel call, or the loop's step that
\* observes the cancelled token and aborts its units
CancellationStep ==
    \/ \E n \in 1..MaxCancels : CancelStep(n)
    \/ cancel_token /\ \E l \in LoopIds : LoopSnapshot(l)

\* C13: a step of cancellation changes no task that is stored as Completed:
\* its state, output_text and error are the same after the step
C13_CancelKeepsCompleted ==
    [][CancellationStep =>
          \A k \in DOMAIN Sess.tasks :
              Sess.tasks[k].state = "Completed" =>
                  /\ Sess'.tasks[k].state = "Completed"
                  /\ Sess'.tasks[k].output_text = Sess.tasks[k].output_text
                  /\ Sess'.tasks[k].error = Sess.tasks[k].error]_vars

\* a task of the request has a dep that is the id of no task of the request
DanglingDep(tasks) ==
    \E k \in DOMAIN tasks :
        \E j \in DOMAIN tasks[k].deps :
            \A i \in DOMAIN tasks : tasks[i].id # tasks[k].deps[j]

\* C14: an update_plan call on a stored session with a task whose deps hold
\* an id that is not among the ids of the supplied tasks returns Validation
\* in the step in which it is made, and that step leaves the stored session
\* (tasks, task_order, state) as it was
C14_UpdatePlanRejected ==
    [][\A n \in 1..MaxUpdatePlans :
          (/\ calls[<<"update", n>>].pc = "idle"
           /\ calls'[<<"update", n>>].pc # "idle"
           /\ calls'[<<"update", n>>].req.sid \in DOMAIN sessions
           /\ DanglingDep(calls'[<<"update", n>>].req.tasks))
              => /\ calls'[<<"update", n>>].pc = "done"
                 /\ calls'[<<"update", n>>].result = "Validation"
                 /\ sessions' = sessions]_vars

\* update_plan has rejected a request while the session holds the plan that
\* generate_plan installed
C14_Witness ==
    /\ calls[<<"update", 1>>].pc = "done"
    /\ calls[<<"update", 1>>].result = "Validation"
    /\ DanglingDep(calls[<<"update", 1>>].req.tasks)
    /\ Sess.state = "Ready"
    /\ Len(Sess.tasks) = 2

\* C15: once the stored session state is Completed, Cancelled or Error, no
\* step of any operation (start, pause, the scheduler loop, its error
\* handler, a unit) changes the stored session state
C15_SessionTerminalStays ==
    [][Sess.state \in {"Completed", "Cancelled", "Error"} => Sess'.state = Sess.state]_vars

\* nothing is in progress: every launched loop has returned and its error
\* handler is done, every unit has ended, every call made has returned
Quiet ==
    /\ \A l \in LoopIds : loops[l].pc \in {"none", "exited"}
    /\ \A u \in UnitIds : units[u].pc \in {"none", "ended"}
    /\ \A c \in CallIds : calls[c].pc \in {"idle", "done"}

\* C16: when the session's scheduler loop has exited (normally, on observing
\* cancellation, or with an error) and nothing else is in progress, the
\* stored session state is not Running
C16_ExitedNotRunning ==
    (Quiet /\ \E l \in LoopIds : loops[l].pc = "exited") => Sess.state # "Running"

\* the insert that ends an update_task call of a unit or of the loop
UpdateTaskInsert ==
    \/ \E u \in UnitIds : UnitUpdateTaskWrite(u)
    \/ \E l \in LoopIds : LoopHitlWrite(l) \/ LoopBlockWrite(l) \/ LoopDispatchWrite(l)

\* the insert that ends an update_session_state call of the loop, of its
\* error handler or of cancel
UpdateSessionStateInsert ==
    \/ \E l \in LoopIds : LoopFinishWrite(l) \/ LoopErrorWrite(l)
    \/ \E n \in 1..MaxCancels : CallStateWrite(<<"cancel", n>>)

SubmitUserInputInsert == \E n \in 1..MaxSubmits : SubmitUserInputWrite(n)

\* the positions of the stored tasks that a step changes
ChangedTasks == {k \in DOMAIN Sess.tasks : Sess'.tasks[k] # Sess.tasks[k]}

\* C17: the calls take effect as if executed one after another: the insert of
\* update_task and of submit_user_input changes at most the one task the
\* call is about and not the session state, and the insert of
\* update_session_state changes no task, so that no concurrent update of
\* another task or of the session state is lost
C17_UpdatesSerial ==
    [][/\ (UpdateTaskInsert \/ SubmitUserInputInsert) =>
              (Sess'.state = Sess.state /\ Cardinality(ChangedTasks) <= 1)
       /\ UpdateSessionStateInsert => ChangedTasks = {}]_vars

\* the call is made with a session id the manager does not hold, or is a
\* submit_user_input with a task id that no task of the session has
UnknownIds(c, req) ==
    \/ req.sid \notin DOMAIN sessions
    \/ c[1] = "submit" /\ \A k \in DOMAIN Sess.tasks : Sess.tasks[k].id # req.task_id

\* C18: get_session_snapshot, update_plan, start, pause, cancel and
\* submit_user_input made with an unknown session id, and submit_user_input
\* made with a task id absent from the session, return NotFound in the step
\* in which they are made, and that step leaves every stored session as it was
C18_UnknownIdsNotFound ==
    [][\A c \in CallIds :
          (/\ c[1] \in {"snapshot", "update", "start", "pause", "cancel", "submit"}
           /\ calls[c].pc = "idle"
           /\ calls'[c].pc # "idle"
           /\ UnknownIds(c, calls'[c].req))
              => /\ calls'[c].pc = "done"
                 /\ calls'[c].result = "NotFound"
                 /\ sessions' = sessions]_vars

\* every kind of call has been made with the unknown session id "s0" or, for
\* submit_user_input, with the unknown task id "T9", and has returned
\* NotFound, and the session is stored as Ready
C18_Witness ==
    /\ \A kind \in {"snapshot", "update", "start", "pause", "cancel"} :
          /\ calls[<<kind, 1>>].result = "NotFound"
          /\ calls[<<kind, 1>>].req.sid = "s0"
    /\ calls[<<"submit", 1>>].result = "NotFound"
    /\ calls[<<"submit", 1>>].req = [SessionReq EXCEPT !.task_id = "T9"]
    /\ Sess.state = "Ready"

\* the planner's answer is a plan with a dependency index that is no
\* position of the plan
BadIndex(out) ==
    /\ out.kind = "json"
    /\ \E k \in DOMAIN out.tasks :
          \E j \in DOMAIN out.tasks[k].deps : out.tasks[k].deps[j] >= Len(out.tasks)

\* C19: when the planner's draft has a dependency index that is no position
\* of the draft, generate_plan fails and installs nothing: the step that
\* takes the draft leaves tasks and task_order as they were, does not make
\* the session Ready and does not return Ok
C19_BadIndexFails ==
    [][\A n \in 1..MaxGeneratePlans :
          \A out \in PlannerResults :
              (BadIndex(out) /\ GeneratePlanInstall(n, out)) =>
                  /\ Sess'.tasks = Sess.tasks
                  /\ Sess'.task_order = Sess.task_order
                  /\ Sess'.state = "Ready" => Sess.state = "Ready"
                  /\ calls'[<<"generate", n>>].result # "Ok"]_vars

\* C20: every task that generate_plan installs has an assignee that is the
\* id of a member of the session's roster, for the default roster and a
\* caller's roster and for every role the planner returns or omits
C20_AssigneeInRoster ==
    [][\A n \in 1..MaxGeneratePlans :
          \A out \in PlannerResults :
              (GeneratePlanInstall(n, out) /\ calls'[<<"generate", n>>].result = "Ok") =>
                  \A k \in DOMAIN Sess'.tasks :
                      \E m \in DOMAIN Sess'.roster :
                          Sess'.roster[m].id = Sess'.tasks[k].assignee]_vars

\* the tasks at the positions S that are left when the tasks none of whose
\* deps is a task at a position of S are taken away, again and again
RECURSIVE Unordered(_, _)
Unordered(tasks, S) ==
    LET free == {k \in S : \A j \in DOMAIN tasks[k].deps :
                              \A i \in S : tasks[i].id # tasks[k].deps[j]}
    IN  IF free = {} THEN S ELSE Unordered(tasks, S \ free)

\* C21: the dependency graph of the stored plan, installed by generate_plan
\* or accepted by update_plan, is acyclic: the tasks can be put in an order
\* in which every task comes after the tasks it depends on, so no task has
\* its own id in its deps
C21_Acyclic == Unordered(Sess.tasks, DOMAIN Sess.tasks) = {}

\* every task with questions has answers
AllAnswered ==
    \A k \in DOMAIN Sess.tasks :
        Sess.tasks[k].questions # <<>> => Sess.tasks[k].user_answers # <<>>

\* the session's loop has returned and the session is Completed or Error
Terminated ==
    /\ \A l \in LoopIds : loops[l].pc \in {"none", "exited"}
    /\ Sess.state \in {"Completed", "Error"}

\* C22: in a started session whose units all return and whose questions are
\* all answered from some time on, the scheduler loop eventually terminates
\* with the session Completed or Error
C22_LoopTerminates == (<>[]AllAnswered) => <>Terminated

\* the positions of the tasks stored as Running
RunningTasks == {k \in DOMAIN Sess.tasks : Sess.tasks[k].state = "Running"}

\* max(1, roster size)
ParallelCap == IF Len(Sess.roster) >= 1 THEN Len(Sess.roster) ELSE 1

\* C23: in every reachable state the number of tasks stored as Running is at
\* most max(1, roster size)
C23_RunningWithinCap == Cardinality(RunningTasks) <= ParallelCap

\* C24: the insert by which a unit reports a failed execution (state Failed
\* or Cancelled) stores that state with error and finished_at for its task,
\* changes no other task and not the session state, and leaves the loop as
\* it is
C24_FailureContained ==
    [][\A u \in UnitIds :
          (UnitUpdateTaskWrite(u) /\ units[u].task.state \in {"Failed", "Cancelled"}) =>
              /\ Sess'.state = Sess.state
              /\ \A k \in DOMAIN Sess.tasks :
                    IF Sess.tasks[k].id = units[u].task.id
                    THEN /\ Sess'.tasks[k].state = units[u].task.state
                         /\ Sess'.tasks[k].error # NoError
                         /\ Sess'.tasks[k].finished
                    ELSE Sess'.tasks[k] = Sess.tasks[k]
              /\ loops' = loops]_vars

\* C25: when the planner has given a plan and generate_plan returns Ok, the
\* stored tasks are the tasks of the draft in draft order, all Draft with
\* empty output and no error, task_order holds their ids in that order,
\* every dependency index i has become the id of the task at position i of
\* the draft, and the session is Ready
C25_PlanInstalled ==
    [][\A n \in 1..MaxGeneratePlans :
          \A out \in PlannerResults :
              (GeneratePlanInstall(n, out) /\ calls'[<<"generate", n>>].result = "Ok") =>
                  /\ Sess'.state = "Ready"
                  /\ Len(Sess'.tasks) = Len(out.tasks)
                  /\ Len(Sess'.task_order) = Len(out.tasks)
                  /\ \A k \in DOMAIN Sess'.tasks :
                        /\ Sess'.tasks[k].state = "Draft"
                        /\ Sess'.tasks[k].output_text = ""
                        /\ Sess'.tasks[k].error = NoError
                        /\ Sess'.task_order[k] = Sess'.tasks[k].id
                        /\ Len(Sess'.tasks[k].deps) = Len(out.tasks[k].deps)
                        /\ \A j \in DOMAIN out.tasks[k].deps :
                              /\ out.tasks[k].deps[j] + 1 \in DOMAIN Sess'.tasks
                              /\ Sess'.tasks[k].deps[j] =
                                     Sess'.tasks[out.tasks[k].deps[j] + 1].id]_vars

\* C26: the record the blocking pass writes is Blocked for a task that is
\* Draft or Ready in the pass's snapshot and has a direct dep that is Failed,
\* Cancelled or Blocked in that snapshot, and its error names such a dep; a
\* task stored as Blocked has an error that names one of its deps, so a task
\* without deps is never Blocked
C26_BlockedOnlyByFailedDep ==
    /\ \A l \in LoopIds :
          loops[l].pc = "block_w" =>
              /\ loops[l].task.state = "Blocked"
              /\ \E k \in DOMAIN loops[l].snap.tasks :
                    /\ loops[l].snap.tasks[k].id = loops[l].task.id
                    /\ loops[l].snap.tasks[k].state \in {"Draft", "Ready"}
              /\ \E j \in DOMAIN loops[l].task.deps :
                    /\ loops[l].task.error = <<"Blocked", loops[l].task.deps[j]>>
                    /\ \E i \in DOMAIN loops[l].snap.tasks :
                          /\ loops[l].snap.tasks[i].id = loops[l].task.deps[j]
                          /\ loops[l].snap.tasks[i].state \in {"Failed", "Cancelled", "Blocked"}
    /\ \A k \in DOMAIN Sess.tasks :
          Sess.tasks[k].state = "Blocked" =>
              \E j \in DOMAIN Sess.tasks[k].deps :
                  Sess.tasks[k].error = <<"Blocked", Sess.tasks[k].deps[j]>>

\* T1 is stored as Failed and its dependent T2 as Blocked, with T1 named
C26_Witness ==
    /\ Len(Sess.tasks) = 2
    /\ Sess.tasks[1].state = "Failed"
    /\ Sess.tasks[2].state = "Blocked"
    /\ Sess.tasks[2].error = <<"Blocked", Sess.tasks[1].id>>

\* the positions of task_order whose task is runnable at the start of loop
\* l's dispatch pass, by the pass's snapshot
StartRunnable(l) ==
    LET byId == tasks_by_id(loops[l].snap.tasks)
        order == loops[l].snap.task_order
    IN  {j \in DOMAIN order :
            /\ order[j] \in DOMAIN byId
            /\ byId[order[j]].state \in {"Draft", "Ready"}
            /\ deps_completed(byId[order[j]], byId)
            /\ hitl_ok(byId[order[j]])
            /\ ~(/\ byId[order[j]].resource_mode = "WorkspaceWrite"
                 /\ has_workspace_write_running(byId))
            /\ running_total(byId) < max_parallel(loops[l].snap.roster)}

\* the cap or the exclusivity of WorkspaceWrite allows only one of the tasks
\* at positions a and b of the pass's snapshot
OnlyOneOf(l, a, b) ==
    LET byId == tasks_by_id(loops[l].snap.tasks)
        order == loops[l].snap.task_order
    IN  \/ max_parallel(loops[l].snap.roster) - running_total(byId) = 1
        \/ /\ byId[order[a]].resource_mode = "WorkspaceWrite"
           /\ byId[order[b]].resource_mode = "WorkspaceWrite"

\* C27: in a step of a dispatch pass, the first task of task_order that is
\* runnable at the start of the pass, if its assignee is in the roster, is the
\* one the pass dispatches; and of two tasks A before B, both runnable at the
\* start of the pass, of which the cap or exclusivity allows only one, B is
\* never the one dispatched
C27_OrderDecides ==
    [][\A l \in LoopIds :
          (loops[l].pc = "disp" /\ loops'[l] # loops[l]) =>
              LET order == loops[l].snap.task_order
                  byId == tasks_by_id(loops[l].snap.tasks)
              IN  /\ \A a \in StartRunnable(l) :
                        (/\ \A c \in StartRunnable(l) : a <= c
                         /\ loops[l].i <= a
                         /\ byId[order[a]].assignee \in RosterIds(loops[l].snap.roster))
                            => /\ loops'[l].pc = "disp_w"
                               /\ loops'[l].i = a + 1
                               /\ loops'[l].task.id = order[a]
                               /\ loops'[l].task.state = "Running"
                  /\ \A a, b \in StartRunnable(l) :
                        (a < b /\ OnlyOneOf(l, a, b))
                            => ~(loops'[l].pc = "disp_w" /\ loops'[l].i = b + 1)]_vars

\* the pass has dispatched A and stands before B, which was runnable at the
\* start of the pass and shares the only slot, or the workspace, with A
C27_Witness ==
    \E l \in LoopIds :
        /\ loops[l].pc = "disp"
        /\ loops[l].scheduled_any
        /\ \E a, b \in StartRunnable(l) :
              a < b /\ OnlyOneOf(l, a, b) /\ loops[l].i = a + 1

\* loop l's dispatch pass started with a runnable WorkspaceWrite task at
\* position a, a runnable ReadOnly task at position b and a roster of two
SharedScenario(l, a, b) ==
    LET byId == tasks_by_id(loops[l].snap.tasks)
        order == loops[l].snap.task_order
    IN  /\ Len(loops[l].snap.roster) = 2
        /\ a \in StartRunnable(l) /\ b \in StartRunnable(l)
        /\ byId[order[a]].resource_mode = "WorkspaceWrite"
        /\ byId[order[b]].resource_mode = "ReadOnly"

\* C28: a pass that stands before a runnable ReadOnly task with a free slot
\* dispatches it although a WorkspaceWrite task is running; and when a pass
\* that started with a runnable writer and a runnable reader under a roster
\* of two ends, both are stored as Running, or as what their unit has
\* reported since
C28_ReaderRunsBesideWriter ==
    [][\A l \in LoopIds :
          (loops[l].pc = "disp" /\ loops'[l] # loops[l]) =>
              LET order == loops[l].snap.task_order
                  byId == tasks_by_id(loops[l].snap.tasks)
              IN  /\ \A b \in StartRunnable(l) :
                        (/\ byId[order[b]].resource_mode = "ReadOnly"
                         /\ byId[order[b]].assignee \in RosterIds(loops[l].snap.roster)
                         /\ loops[l].i = b
                         /\ loops[l].has_workspace_write_running
                         /\ loops[l].running_total < max_parallel(loops[l].snap.roster))
                            => /\ loops'[l].pc = "disp_w"
                               /\ loops'[l].task.id = order[b]
                               /\ loops'[l].task.state = "Running"
                  /\ \A a, b \in DOMAIN order :
                        (SharedScenario(l, a, b) /\ loops'[l].pc = "top")
                            => \A k \in DOMAIN Sess'.tasks :
                                  Sess'.tasks[k].id \in {order[a], order[b]}
                                      => Sess'.tasks[k].state \in
                                            {"Running", "Completed", "Failed", "Cancelled"}]_vars

\* a pause call has returned Ok and the session is stored as Paused
PausedAfterReturn ==
    /\ \E n \in 1..MaxPauses :
          calls[<<"pause", n>>].pc = "done" /\ calls[<<"pause", n>>].result = "Ok"
    /\ Sess.state = "Paused"

\* C29: while a pause call has returned and the session is stored as Paused,
\* no loop completes a dispatch: no task record is written as Running with
\* its unit spawned
C29_NoDispatchWhilePaused ==
    [][PausedAfterReturn =>
          \A l \in LoopIds : ~(loops[l].pc = "disp_w" /\ loops'[l].pc = "disp")]_vars

\* the listed changes of a session's state
ListedTransitions ==
    {<<"Draft", "Planning">>, <<"Planning", "Ready">>, <<"Ready", "Running">>,
     <<"Running", "Paused">>, <<"Paused", "Running">>, <<"Running", "Cancelled">>,
     <<"Running", "Completed">>, <<"Running", "Error">>}

\* C30: every step that changes the stored state of the session makes one of
\* the listed changes, and a step that makes it Running is the insert of a
\* start call
C30_ListedTransitionsOnly ==
    [][Sess'.state # Sess.state =>
          /\ <<Sess.state, Sess'.state>> \in ListedTransitions
          /\ Sess'.state = "Running" =>
                \E n \in 1..MaxStarts :
                    /\ calls[<<"start", n>>].pc = "write"
                    /\ calls'[<<"start", n>>].pc = "done"]_vars

\* the stored record of the task with the id of task
StoredTask(session, task) ==
    {session.tasks[k] : k \in {j \in DOMAIN session.tasks : session.tasks[j].id = task.id}}

UnitEmitPcs == {"emit_out", "emit_state"}

LoopEmitPcs == {"hitl_e", "hitl_s", "block_e", "disp_e"}

\* C31: a unit or a pass comes to emit for a task record only by the step
\* that inserts that record into the store, and it emits that record; a unit
\* that reports Completed emits task-output before task-state-changed; a unit
\* whose update_task fails ends without coming to an emit
C31_PersistThenEmit ==
    [][/\ \A u \in UnitIds :
             /\ (units'[u].pc \in UnitEmitPcs /\ units[u].pc \notin UnitEmitPcs)
                    => /\ units[u].pc = "write"
                       /\ units'[u].task \in StoredTask(Sess', units'[u].task)
             /\ (units'[u].pc \in UnitEmitPcs /\ units[u].pc \in UnitEmitPcs)
                    => units'[u].task = units[u].task
             /\ (units'[u].pc = "emit_state" /\ units'[u].task.state = "Completed")
                    => units[u].pc \in UnitEmitPcs
             /\ units'[u].pc = "emit_out" => units'[u].task.state = "Completed"
       /\ \A l \in LoopIds :
             /\ (loops'[l].pc \in LoopEmitPcs /\ loops[l].pc \notin LoopEmitPcs)
                    => /\ loops[l].pc \in {"hitl_w", "block_w", "disp_w"}
                       /\ loops'[l].task \in StoredTask(Sess', loops'[l].task)
             /\ (loops'[l].pc \in LoopEmitPcs /\ loops[l].pc \in LoopEmitPcs)
                    => loops'[l].task = loops[l].task]_vars

\* a unit that has stored Completed and emitted task-output stands before
\* task-state-changed, while a unit whose update_task failed has ended
C31_Witness ==
    \E u, v \in UnitIds :
        /\ units[u].pc = "emit_state" /\ units[u].task.state = "Completed"
        /\ units[v].pc = "ended" /\ units[v].task = NoTask

\* C32: no step changes the stored state of a task id from a state other
\* than Draft to Draft
C32_NoReturnToDraft ==
    [][\A k \in DOMAIN Sess.tasks, j \in DOMAIN Sess'.tasks :
          (Sess'.tasks[j].id = Sess.tasks[k].id /\ Sess.tasks[k].state # "Draft")
              => Sess'.tasks[j].state # "Draft"]_vars

\* loop l has seen the cancellation signal at its check and returned
StoppedByCancel(l) == loops[l].pc = "exited" /\ loops[l].exit = "cancelled"

\* C33: a loop that comes to its cancellation check with the signal raised
\* returns there; from then on it takes no step, so it writes nothing to the
\* store, and no task is stored as Running that was not Running before
C33_StopsAtCheck ==
    [][\A l \in LoopIds :
          /\ (loops[l].pc = "top" /\ cancel_token /\ loops'[l] # loops[l])
                => /\ StoppedByCancel(l)'
                   /\ sessions' = sessions
          /\ StoppedByCancel(l)
                => /\ loops'[l] = loops[l]
                   /\ \A k \in DOMAIN Sess.tasks, j \in DOMAIN Sess'.tasks :
                         (Sess'.tasks[j].id = Sess.tasks[k].id
                            /\ Sess'.tasks[j].state = "Running")
                                => Sess.tasks[k].state = "Running"]_vars

\* C34: when execute_subagent returns, the unit makes one record for its
\* task, with finished set: Completed with the output and no error; or
\* Cancelled with the error, the signal being raised or the error being the
\* cancellation; or Failed with the error, the signal not being raised.  It
\* carries that record unchanged to its one insert and does nothing after it
C34_OneOutcome ==
    [][\A u \in UnitIds :
          /\ (units[u].pc = "exec" /\ units'[u].pc \in {"report", "write"})
                => LET t == units'[u].task
                   IN  /\ t.id = units[u].task.id
                       /\ t.finished
                       /\ t.state \in {"Completed", "Cancelled", "Failed"}
                       /\ t.state = "Completed"
                            => t.output_text = "output" /\ t.error = NoError
                       /\ t.state = "Cancelled"
                            => t.error # NoError /\ (cancel_token \/ t.error = <<"cancelled">>)
                       /\ t.state = "Failed" => t.error = <<"error">> /\ ~cancel_token
          /\ (units[u].pc = "report" /\ units'[u].pc = "write")
                => units'[u].task = units[u].task
          /\ (units[u].pc = "write" /\ units'[u] # units[u])
                => /\ units[u].task \in StoredTask(Sess', units[u].task)
                   /\ units'[u].pc = "ended"
          /\ units[u].pc = "ended" => units'[u] = units[u]]_vars

\* a unit whose execution failed with another error while the signal was
\* raised is about to insert its task as Cancelled
C34_Witness ==
    \E u \in UnitIds :
        /\ units[u].pc = "write"
        /\ units[u].task.state = "Cancelled"
        /\ units[u].task.error = <<"error">>

\* C35: in every reachable state task_order has one entry for each stored
\* task and no other, and no two stored tasks have the same id
C35_OrderListsTasks ==
    /\ Len(Sess.task_order) = Len(Sess.tasks)
    /\ {Sess.task_order[k] : k \in DOMAIN Sess.task_order} = TaskIds(Sess.tasks)
    /\ Cardinality(TaskIds(Sess.tasks)) = Len(Sess.tasks)

\* C36: no generate_plan call ends in a panic of the parser: every call
\* that has got the planner's text returns Ok or the AIClient error
C36_ParseNeverAborts ==
    \A n \in 1..MaxGeneratePlans : calls[<<"generate", n>>].pc # "panicked"

\* C37: only the insert of a submit_user_input call changes the stored
\* answers of a task: every other step leaves the user_answers of every
\* stored task id as they are
C37_AnswersKept ==
    [][(\A n \in 1..MaxSubmits :
            ~(calls[<<"submit", n>>].pc = "write" /\ calls'[<<"submit", n>>].pc = "done"))
          => \A k \in DOMAIN Sess.tasks, j \in DOMAIN Sess'.tasks :
                Sess'.tasks[j].id = Sess.tasks[k].id
                    => Sess'.tasks[j].user_answers = Sess.tasks[k].user_answers]_vars

\* C38: in every reachable state in which a loop of the session has exited,
\* no loop is executing and every unit has ended, no stored task is Running
C38_NoRunningLeft ==
    (/\ \E l \in LoopIds : loops[l].pc = "exited"
     /\ \A l \in LoopIds : loops[l].pc \in {"none", "exited"}
     /\ \A u \in UnitIds : units[u].pc \in {"none", "ended"})
        => \A k \in DOMAIN Sess.tasks : Sess.tasks[k].state # "Running"

\* generate_plan call n inserts its plan and returns Ok
GeneratePlanFinalWrite(n) ==
    /\ calls[<<"generate", n>>].pc = "planner"
    /\ calls'[<<"generate", n>>].pc = "done"
    /\ calls'[<<"generate", n>>].result = "Ok"

\* C39: the final write of generate_plan leaves the roster as stored, and
\* leaves the stored state as it is unless that state is Planning, which it
\* changes to Ready
C39_FinalWriteKeepsChanges ==
    [][\A n \in 1..MaxGeneratePlans :
          GeneratePlanFinalWrite(n)
              => /\ Sess'.roster = Sess.roster
                 /\ \/ Sess'.state = Sess.state
                    \/ Sess.state = "Planning" /\ Sess'.state = "Ready"]_vars

\* C40: a generate_plan call that has stored Planning and does not get a
\* draft returns the error of the planner call or of the parser and writes
\* nothing, so that tasks, task_order and the state stay as stored: Planning,
\* if no other call has begun
C40_FailureLeavesPlanning ==
    [][\A n \in 1..MaxGeneratePlans :
          (/\ calls[<<"generate", n>>].pc = "planner"
           /\ calls'[<<"generate", n>>] # calls[<<"generate", n>>]
           /\ ~GeneratePlanFinalWrite(n))
              => /\ calls'[<<"generate", n>>].pc = "done"
                 /\ calls'[<<"generate", n>>].result \in {"Error", "AIClient"}
                 /\ sessions' = sessions
                 /\ (\A c \in CallIds \ {<<"generate", n>>} : calls[c].pc = "idle")
                        => Sess'.state = "Planning"]_vars

====
